---- MODULE Spec2Model ----
(***************************************************************************)
(* Shamir's Secret Sharing over GF(2^8): the field (gf256.rs), the random  *)
(* polynomial (polynomial.rs), split / combine (shamir.rs) and the file    *)
(* layer that calls them (sharding.rs, combine.rs).                        *)
(***************************************************************************)
EXTENDS Integers, Sequences, FiniteSets, TLC

VARIABLES pc, secret, parts, threshold, x_coordinates, polys, splitOut,
          cin, combOut, ioOut, disk, fa, fb, fout, obs, cand

vars == <<pc, secret, parts, threshold, x_coordinates, polys, splitOut,
          cin, combOut, ioOut, disk, fa, fb, fout, obs, cand>>

(***************************************************************************)
(* Bounds of the model                                                     *)
(***************************************************************************)
MaxSecretLen == 1      \* longest secret handed to split
MaxParts     == 3      \* most shares a successful split produces
MaxFileLen   == 1      \* longest secret file handed to shard_secret
MaxFileParts == 2      \* most shard files a successful shard_secret writes
MaxRawShares == 2      \* most byte strings handed to combine directly
MaxRawLen    == 3      \* longest such byte string

SeqsUpTo(S, n) == UNION {[1..k -> S] : k \in 0..n}
Injective(f) == \A i, j \in DOMAIN f : i # j => f[i] # f[j]

(***************************************************************************)
(* u8                                                                      *)
(***************************************************************************)
Byte == 0..255

\* Rust's `^` on integers of n bits.
RECURSIVE XorBits(_, _, _)
XorBits(a, b, n) ==
    IF n = 0 THEN 0
    ELSE (((a % 2) + (b % 2)) % 2) + 2 * XorBits(a \div 2, b \div 2, n - 1)

\* `^` on u8, tabulated once.
XorT == [a \in Byte |-> [b \in Byte |-> XorBits(a, b, 8)]]

(***************************************************************************)
(* gf256.rs                                                                *)
(***************************************************************************)
add(a, b) == XorT[a][b]

\* MultLoop reducing with 0x1D instead of 0x1B.
RECURSIVE MultLoop_WrongPoly(_, _, _, _)
MultLoop_WrongPoly(a, b, result, iters) ==
    IF b > 0
    THEN LET r1 == IF b % 2 # 0 THEN XorT[result][a] ELSE result
             a1 == IF a \div 128 # 0
                   THEN XorT[(a * 2) % 256][29]
                   ELSE (a * 2) % 256
             b1 == b \div 2
         IN  MultLoop_WrongPoly(a1, b1, r1, iters + 1)
    ELSE [result |-> result, iters |-> iters]

\* The while loop of GF256::mult; iters counts the loop's iterations.
RECURSIVE MultLoop(_, _, _, _)
MultLoop(a, b, result, iters) ==
    IF b > 0
    THEN LET r1 == IF b % 2 # 0 THEN XorT[result][a] ELSE result
             a1 == IF a \div 128 # 0
                   THEN XorT[(a * 2) % 256][27]
                   ELSE (a * 2) % 256
             b1 == b \div 2
         IN  MultLoop(a1, b1, r1, iters + 1)
    ELSE [result |-> result, iters |-> iters]

mult(a, b) == MultLoop(a, b, 0, 0).result

\* GF256::mult, tabulated once.
MultT == [a \in Byte |-> [b \in Byte |-> mult(a, b)]]

\* inverse with the third squaring of the chain left out.
inverse_ShortChain(a) ==
    LET b1 == MultT[a][a]
        c1 == MultT[a][b1]
        b2 == MultT[c1][c1]
        b3 == MultT[b2][b2]
        c2 == MultT[b3][c1]
        b4 == MultT[b3][b3]
        b6 == MultT[b4][c2]
        b7 == MultT[b6][b6]
        b8 == MultT[a][b7]
    IN  MultT[b8][b8]

inverse(a) ==
    LET b1 == MultT[a][a]
        c1 == MultT[a][b1]
        b2 == MultT[c1][c1]
        b3 == MultT[b2][b2]
        c2 == MultT[b3][c1]
        b4 == MultT[b3][b3]
        b5 == MultT[b4][b4]
        b6 == MultT[b5][c2]
        b7 == MultT[b6][b6]
        b8 == MultT[a][b7]
    IN  MultT[b8][b8]

\* GF256::div panics exactly when the divisor is 0.
DivPanics(a, b) == b = 0

\* GF256::div for a divisor that does not panic.
div(a, b) ==
    LET ret == MultT[a][inverse(b)]
    IN  IF a = 0 THEN 0 ELSE ret

(***************************************************************************)
(* polynomial.rs                                                           *)
(***************************************************************************)
\* rng.gen_range(0..255): the upper end left out.
CoefRange_Exclusive == 0..254

\* rng.gen_range(0..=255)
CoefRange == 0..255

\* Polynomial::new; randoms are the degree bytes the generator returned.
PolynomialNew(intercept, randoms) == <<intercept>> \o randoms

RECURSIVE EvalFold(_, _, _, _)
EvalFold(coefficients, k, acc, x) ==
    IF k = 0 THEN acc
    ELSE EvalFold(coefficients, k - 1, add(MultT[acc][x], coefficients[k]), x)

\* Horner's fold that adds x instead of multiplying by it.
evaluate_NoMult(coefficients, x) ==
    LET RECURSIVE F(_, _)
        F(k, acc) == IF k = 0 THEN acc
                     ELSE F(k - 1, add(add(acc, x), coefficients[k]))
    IN  F(Len(coefficients), 0)

\* Polynomial::evaluate: coefficients.iter().rev().fold(0, ...)
evaluate(coefficients, x) == EvalFold(coefficients, Len(coefficients), 0, x)

(***************************************************************************)
(* shamir.rs                                                               *)
(***************************************************************************)
SplitMsgs == [below   |-> "parts cannot be less than threshold",
              over    |-> "parts cannot exceed 255",
              low     |-> "threshold must be at least 2",
              thrOver |-> "threshold cannot exceed 255",
              empty   |-> "cannot split an empty secret"]

CombineMsgs == [few  |-> "less than two parts cannot be used to reconstruct the secret",
                form |-> "all parts must be at least two bytes and the same length",
                dup  |-> "duplicate part detected",
                div0 |-> "divide by zero"]

\* The match of split with the threshold checks placed first.
SplitCheck_ThresholdFirst(s, p, t) ==
    IF t < 2 THEN SplitMsgs.low
    ELSE IF t > 255 THEN SplitMsgs.thrOver
    ELSE IF p < t THEN SplitMsgs.below
    ELSE IF p > 255 THEN SplitMsgs.over
    ELSE IF Len(s) = 0 THEN SplitMsgs.empty
    ELSE "pass"

\* The match at the head of split: the first arm whose guard holds panics.
SplitCheck(s, p, t) ==
    IF p < t THEN SplitMsgs.below
    ELSE IF p > 255 THEN SplitMsgs.over
    ELSE IF t < 2 THEN SplitMsgs.low
    ELSE IF t > 255 THEN SplitMsgs.thrOver
    ELSE IF Len(s) = 0 THEN SplitMsgs.empty
    ELSE "pass"

\* (0..=255_u8): the range with 0 in it.
XRange_FromZero == 0..255

\* (1..=255_u8), the range x-coordinates are chosen from.
XRange == 1..255

\* Shares with the x-coordinate written to the first byte, not the last.
SplitShares_XFirst(s, xs, ps) ==
    [i \in 1..Len(xs) |->
        [idx \in 1..(Len(s) + 1) |->
            IF idx = 1 THEN xs[i]
            ELSE evaluate(ps[idx - 1], xs[i])]]

\* The shares split builds: buffer[secret.len()] = x, shares[i][idx] =
\* polynomial.evaluate(x) with one polynomial ps[idx] per secret byte.
SplitShares(s, xs, ps) ==
    [i \in 1..Len(xs) |->
        [idx \in 1..(Len(s) + 1) |->
            IF idx = Len(s) + 1 THEN xs[i]
            ELSE evaluate(ps[idx], xs[i])]]

\* The div calls with the denominator taken against x, not against x_i.
DivCalls_DenomFromX(x_samples, x) ==
    {<<add(x, x_samples[q[2]]), add(x, x_samples[q[2]])>> :
        q \in {r \in (1..Len(x_samples)) \X (1..Len(x_samples)) :
                  r[1] # r[2]}}

\* The div calls of one interpolate_polynomial, as <<num, denom>>.
DivCalls(x_samples, x) ==
    {<<add(x, x_samples[q[2]]), add(x_samples[q[1]], x_samples[q[2]])>> :
        q \in {r \in (1..Len(x_samples)) \X (1..Len(x_samples)) :
                  r[1] # r[2]}}

\* The arguments of the inverse calls of one interpolate_polynomial: div
\* calls inverse(b) on its divisor unless it has panicked on b = 0.
InverseCalls(x_samples, x) ==
    {c[2] : c \in {d \in DivCalls(x_samples, x) : ~DivPanics(d[1], d[2])}}

RECURSIVE BasisFold(_, _, _, _, _)
BasisFold(x_samples, i, j, acc, x) ==
    IF j > Len(x_samples) THEN acc
    ELSE IF j = i THEN BasisFold(x_samples, i, j + 1, acc, x)
    ELSE LET num   == add(x, x_samples[j])
             denom == add(x_samples[i], x_samples[j])
         IN  BasisFold(x_samples, i, j + 1, MultT[acc][div(num, denom)], x)

RECURSIVE SumFold(_, _, _, _, _)
SumFold(x_samples, y_samples, i, acc, x) ==
    IF i > Len(x_samples) THEN acc
    ELSE LET basis == BasisFold(x_samples, i, 1, 1, x)
         IN  SumFold(x_samples, y_samples, i + 1,
                     add(acc, MultT[y_samples[i]][basis]), x)

\* interpolate_polynomial that leaves the numerator out of each basis factor.
interpolate_NoNum(x_samples, y_samples, x) ==
    LET RECURSIVE B(_, _, _)
        B(i, j, acc) ==
            IF j > Len(x_samples) THEN acc
            ELSE IF j = i THEN B(i, j + 1, acc)
            ELSE B(i, j + 1,
                   MultT[acc][div(1, add(x_samples[i], x_samples[j]))])
        RECURSIVE S(_, _)
        S(i, acc) ==
            IF i > Len(x_samples) THEN acc
            ELSE S(i + 1, add(acc, MultT[y_samples[i]][B(i, 1, 1)]))
    IN  S(1, 0)

interpolate_polynomial(x_samples, y_samples, x) ==
    SumFold(x_samples, y_samples, 1, 0, x)

CombinePanic(m, ran) ==
    [op |-> "combine", kind |-> "panic", msg |-> m, secret |-> <<>>,
     fieldRan |-> ran]

\* combine with the duplicate check made after the interpolation.
combine_LateDupCheck(ps) ==
    IF Len(ps) < 2 THEN CombinePanic(CombineMsgs.few, FALSE)
    ELSE LET first_part_len == Len(ps[1]) IN
    IF first_part_len < 2 \/ \E i \in 1..Len(ps) : Len(ps[i]) # first_part_len
    THEN CombinePanic(CombineMsgs.form, FALSE)
    ELSE LET x_samples == [i \in 1..Len(ps) |-> ps[i][first_part_len]] IN
    IF \E c \in DivCalls(x_samples, 0) : DivPanics(c[1], c[2])
    THEN CombinePanic(CombineMsgs.dup, TRUE)
    ELSE [op |-> "combine", kind |-> "ok", msg |-> "",
          secret |-> [idx \in 1..(first_part_len - 1) |->
                        interpolate_polynomial(x_samples,
                            [i \in 1..Len(ps) |-> ps[i][idx]], 0)],
          fieldRan |-> TRUE]

\* combine: the three checks in the order of the code, then one
\* interpolation at 0 per byte; a div that panics unwinds the call.
combine(ps) ==
    IF Len(ps) < 2 THEN CombinePanic(CombineMsgs.few, FALSE)
    ELSE LET first_part_len == Len(ps[1]) IN
    IF first_part_len < 2 \/ \E i \in 1..Len(ps) : Len(ps[i]) # first_part_len
    THEN CombinePanic(CombineMsgs.form, FALSE)
    ELSE LET x_samples == [i \in 1..Len(ps) |-> ps[i][first_part_len]] IN
    IF \E i, j \in 1..Len(ps) : i < j /\ x_samples[i] = x_samples[j]
    THEN CombinePanic(CombineMsgs.dup, FALSE)
    ELSE IF \E c \in DivCalls(x_samples, 0) : DivPanics(c[1], c[2])
    THEN CombinePanic(CombineMsgs.div0, TRUE)
    ELSE [op |-> "combine", kind |-> "ok", msg |-> "",
          secret |-> [idx \in 1..(first_part_len - 1) |->
                        interpolate_polynomial(x_samples,
                            [i \in 1..Len(ps) |-> ps[i][idx]], 0)],
          fieldRan |-> TRUE]

(***************************************************************************)
(* Calls of split and combine, directly and through the file layer         *)
(***************************************************************************)
NoCall == [op |-> "none", kind |-> "none", value |-> 0, iters |-> 0]

SecretBytes == {0, 229}
Secrets     == SeqsUpTo(SecretBytes, MaxSecretLen)
FileSecrets == SeqsUpTo(SecretBytes, MaxFileLen)
PartsInputs == (0..MaxParts) \cup {5, 255, 256, 1000}
ThresholdInputs == (0..MaxParts) \cup {255, 256, 1000}
\* The random draws are taken from these bytes, as far as the range the
\* code draws from holds them.
XPool    == {0, 1, 2, 254, 255} \cap XRange
CoefPool == {0, 255} \cap CoefRange
RawBytes == {0, 1}
RawShareLists == SeqsUpTo(SeqsUpTo(RawBytes, MaxRawLen), MaxRawShares)

\* choose_multiple(&mut rng, n): n distinct elements, in any order.
ChooseMultiple(n) == {xs \in [1..n -> XPool] : Injective(xs)}

\* Any choice of distinct shares out of n, in any order.
Selections(n) == {sel \in SeqsUpTo(1..n, n) : Injective(sel)}

SplitPanic(m) ==
    [op |-> "split", kind |-> "panic", msg |-> m, shares |-> <<>>]

Init ==
    /\ pc = "idle"
    /\ secret = <<>>
    /\ parts = 0
    /\ threshold = 0
    /\ x_coordinates = <<>>
    /\ polys = <<>>
    /\ splitOut = NoCall
    /\ cin = <<>>
    /\ combOut = NoCall
    /\ ioOut = "none"
    /\ disk = <<>>
    /\ fa = 0
    /\ fb = 0
    /\ fout = NoCall
    /\ obs = <<>>
    /\ cand = 0

\* split(secret, parts, threshold) called with input that panics.
SplitRejects ==
    /\ pc = "idle"
    /\ \E s \in Secrets, p \in PartsInputs, t \in ThresholdInputs :
          /\ SplitCheck(s, p, t) # "pass"
          /\ secret' = s
          /\ parts' = p
          /\ threshold' = t
          /\ splitOut' = SplitPanic(SplitCheck(s, p, t))
    /\ pc' = "split"
    /\ UNCHANGED <<x_coordinates, polys, cin, combOut, ioOut, disk,
                   fa, fb, fout, obs, cand>>

\* split(secret, parts, threshold) called with input that passes the match.
SplitReturns ==
    /\ pc = "idle"
    /\ \E s \in Secrets, p \in PartsInputs, t \in ThresholdInputs :
          /\ SplitCheck(s, p, t) = "pass"
          /\ p <= MaxParts
          /\ \E xs \in ChooseMultiple(p),
                rnd \in [1..Len(s) -> [1..(t - 1) -> CoefPool]] :
                LET ps == [idx \in 1..Len(s) |->
                              PolynomialNew(s[idx], rnd[idx])]
                IN  /\ secret' = s
                    /\ parts' = p
                    /\ threshold' = t
                    /\ x_coordinates' = xs
                    /\ polys' = ps
                    /\ splitOut' = [op |-> "split", kind |-> "ok",
                                    msg |-> "",
                                    shares |-> SplitShares(s, xs, ps)]
    /\ pc' = "split"
    /\ UNCHANGED <<cin, combOut, ioOut, disk, fa, fb, fout, obs, cand>>

\* combine called with shares of the last split, any of them in any order.
CombineShares ==
    /\ pc = "split"
    /\ splitOut.kind = "ok"
    /\ \E sel \in Selections(Len(splitOut.shares)) :
          LET ps == [k \in 1..Len(sel) |-> splitOut.shares[sel[k]]]
          IN  /\ cin' = ps
              /\ combOut' = combine(ps)
    /\ pc' = "combined"
    /\ UNCHANGED <<secret, parts, threshold, x_coordinates, polys, splitOut,
                   ioOut, disk, fa, fb, fout,
                   obs, cand>>

\* combine called with byte strings that come from anywhere.
CombineRaw ==
    /\ pc = "idle"
    /\ \E ps \in RawShareLists :
          /\ cin' = ps
          /\ combOut' = combine(ps)
    /\ pc' = "combined"
    /\ UNCHANGED <<secret, parts, threshold, x_coordinates, polys, splitOut,
                   ioOut, disk, fa, fb, fout,
                   obs, cand>>

\* sharding.rs shard_secret: create the directory, read the file, split,
\* write one file per shard, move them into the directory.  Every `?` may
\* return Err; a panic of split unwinds through the call.
ShardSecret ==
    /\ pc = "idle"
    /\ \E s \in FileSecrets, p \in PartsInputs, t \in ThresholdInputs,
          fail \in {"none", "dir", "read", "write", "rename"},
          moved \in 0..MaxFileParts :
          /\ secret' = s
          /\ parts' = p
          /\ threshold' = t
          /\ IF fail \in {"dir", "read"}
             THEN /\ moved = 0
                  /\ ioOut' = "Err"
                  /\ UNCHANGED <<x_coordinates, polys, splitOut, disk>>
             ELSE IF SplitCheck(s, p, t) # "pass"
             THEN /\ moved = 0
                  /\ fail = "none"
                  /\ ioOut' = "panic"
                  /\ splitOut' = SplitPanic(SplitCheck(s, p, t))
                  /\ UNCHANGED <<x_coordinates, polys, disk>>
             ELSE /\ p <= MaxFileParts
                  /\ \E xs \in ChooseMultiple(p),
                        rnd \in [1..Len(s) -> [1..(t - 1) -> CoefPool]] :
                        LET ps == [idx \in 1..Len(s) |->
                                      PolynomialNew(s[idx], rnd[idx])]
                            sh == SplitShares(s, xs, ps)
                        IN  /\ x_coordinates' = xs
                            /\ polys' = ps
                            /\ splitOut' = [op |-> "split", kind |-> "ok",
                                            msg |-> "", shares |-> sh]
                            /\ CASE fail = "none" ->
                                      /\ moved = 0
                                      /\ disk' = sh
                                      /\ ioOut' = "Ok"
                                 [] fail = "write" ->
                                      /\ moved = 0
                                      /\ disk' = <<>>
                                      /\ ioOut' = "Err"
                                 [] fail = "rename" ->
                                      /\ moved < p
                                      /\ disk' = SubSeq(sh, 1, moved)
                                      /\ ioOut' = "Err"
    /\ pc' = "sharded"
    /\ UNCHANGED <<cin, combOut, fa, fb, fout, obs, cand>>

\* combine.rs combine_secret: list the directory (entries that fail to read
\* are dropped, the order is the directory's), read each file, combine,
\* write the result.  Every `?` may return Err; a panic of combine unwinds.
CombineSecret ==
    /\ pc = "sharded"
    /\ ioOut = "Ok"
    /\ \E fail \in {"none", "read", "write"},
          sel \in Selections(Len(disk)) :
          LET ps == [k \in 1..Len(sel) |-> disk[sel[k]]]
          IN  IF fail = "read"
              THEN /\ sel = <<>>
                   /\ ioOut' = "Err"
                   /\ UNCHANGED <<cin, combOut>>
              ELSE /\ cin' = ps
                   /\ combOut' = combine(ps)
                   /\ ioOut' = IF combine(ps).kind = "panic" THEN "panic"
                               ELSE IF fail = "write" THEN "Err"
                               ELSE "Ok"
    /\ pc' = "recovered"
    /\ UNCHANGED <<secret, parts, threshold, x_coordinates, polys, splitOut,
                   disk, fa, fb, fout,
                   obs, cand>>

Next ==
    \/ SplitRejects
    \/ SplitReturns
    \/ CombineShares
    \/ CombineRaw
    \/ ShardSecret
    \/ CombineSecret

Spec == Init /\ [][Next]_vars

(***************************************************************************)
(* Properties of split and combine                                         *)
(***************************************************************************)
Last(sq) == sq[Len(sq)]

\* combine was called with shares of a split that returned.
CombinedOwnShares ==
    /\ pc = "combined"
    /\ splitOut.kind = "ok"

\* C1: combine of threshold or more distinct shares of one split, in any
\* order, returns the secret.
C1_RoundTrip ==
    (CombinedOwnShares /\ Len(cin) >= threshold) =>
        /\ combOut.kind = "ok"
        /\ combOut.secret = secret

\* Three shares of a 3-of-3 split, not in the order split returned them,
\* with a nonzero top coefficient, gave the secret back.
C1_Witness ==
    /\ CombinedOwnShares
    /\ threshold = 3
    /\ secret = <<229>>
    /\ Len(cin) = 3
    /\ cin[1] = splitOut.shares[3]
    /\ polys[1][3] # 0
    /\ combOut.secret = secret

\* C2: split returns parts shares of length len(secret)+1 whose last bytes
\* are pairwise distinct and lie in 1..255.
C2_ShareShape ==
    (splitOut.op = "split" /\ splitOut.kind = "ok") =>
        LET sh == splitOut.shares IN
        /\ Len(sh) = parts
        /\ \A i \in 1..Len(sh) :
              /\ Len(sh[i]) = Len(secret) + 1
              /\ Last(sh[i]) >= 1
              /\ Last(sh[i]) <= 255
        /\ \A i, j \in 1..Len(sh) : i # j => Last(sh[i]) # Last(sh[j])

\* A split into 3 shares of 2 bytes each has returned.
C2_Witness ==
    /\ pc = "split"
    /\ splitOut.kind = "ok"
    /\ parts = 3
    /\ Len(splitOut.shares) = 3
    /\ Len(splitOut.shares[3]) = 2

\* C4 as stated: with at least 2 shares combine returns the secret if and
\* only if there are at least threshold of them.
C4_Original ==
    (CombinedOwnShares /\ Len(cin) >= 2) =>
        /\ combOut.kind = "ok"
        /\ Len(combOut.secret) = Len(secret)
        /\ (combOut.secret = secret) <=> (Len(cin) >= threshold)

\* C4 amended: threshold or more shares give the secret; 2 <= m < threshold
\* shares give, without failing, len(secret) bytes, and with m = threshold-1
\* byte idx is the secret's exactly when the top coefficient drawn for that
\* byte is 0.
C4_EnoughShares ==
    (CombinedOwnShares /\ Len(cin) >= 2) =>
        /\ combOut.kind = "ok"
        /\ Len(combOut.secret) = Len(secret)
        /\ Len(cin) >= threshold => combOut.secret = secret
        /\ Len(cin) = threshold - 1 =>
              \A idx \in 1..Len(secret) :
                  (combOut.secret[idx] = secret[idx])
                      <=> (polys[idx][threshold] = 0)

\* Two shares of a threshold-3 split were combined without failing and
\* gave a byte that is not the secret's.
C4_Witness ==
    /\ CombinedOwnShares
    /\ threshold = 3
    /\ Len(cin) = 2
    /\ combOut.kind = "ok"
    /\ Len(combOut.secret) = Len(secret)
    /\ combOut.secret # secret

\* The preconditions of split in the order they are listed, with the
\* failure each one reports.
SplitViolations ==
    << <<parts < threshold, SplitMsgs.below>>,
       <<parts > 255,       SplitMsgs.over>>,
       <<threshold < 2,     SplitMsgs.low>>,
       <<threshold > 255,   SplitMsgs.thrOver>>,
       <<Len(secret) = 0,   SplitMsgs.empty>> >>

\* C5: split fails iff a precondition is violated, reports the first
\* violated one in the listed order, and produces no share.
C5_SplitValidation ==
    splitOut.op = "split" =>
        LET v == SplitViolations IN
        /\ (splitOut.kind = "panic") <=> (\E k \in 1..5 : v[k][1])
        /\ splitOut.kind = "panic" =>
              /\ \E k \in 1..5 :
                    /\ v[k][1]
                    /\ \A j \in 1..(k - 1) : ~v[j][1]
                    /\ splitOut.msg = v[k][2]
              /\ splitOut.shares = <<>>
        /\ (parts = 2 /\ threshold = 3) => splitOut.msg = SplitMsgs.below
        /\ (secret = <<>> /\ parts = 5 /\ threshold = 3) =>
              splitOut.msg = SplitMsgs.empty

\* split([], 5, 3) has failed as empty-secret.
C5_Witness ==
    /\ pc = "split"
    /\ secret = <<>>
    /\ parts = 5
    /\ threshold = 3
    /\ splitOut.kind = "panic"
    /\ splitOut.msg = SplitMsgs.empty

\* C6: combine fails as too-few with under 2 shares, else as malformed when
\* a share is under 2 bytes or lengths differ, else as duplicate when two
\* last bytes agree, else returns share_length-1 bytes; a failure comes
\* before any field operation and carries no secret.
C6_CombineValidation ==
    combOut.op = "combine" =>
        /\ IF Len(cin) < 2
           THEN combOut.kind = "panic" /\ combOut.msg = CombineMsgs.few
           ELSE IF \/ \E i \in 1..Len(cin) : Len(cin[i]) < 2
                   \/ \E i, j \in 1..Len(cin) : Len(cin[i]) # Len(cin[j])
           THEN combOut.kind = "panic" /\ combOut.msg = CombineMsgs.form
           ELSE IF \E i, j \in 1..Len(cin) :
                      i # j /\ Last(cin[i]) = Last(cin[j])
           THEN combOut.kind = "panic" /\ combOut.msg = CombineMsgs.dup
           ELSE /\ combOut.kind = "ok"
                /\ Len(combOut.secret) = Len(cin[1]) - 1
        /\ combOut.kind = "panic" =>
              /\ ~combOut.fieldRan
              /\ combOut.secret = <<>>

\* Two well-formed byte strings with the same last byte were rejected as
\* duplicates.
C6_Witness ==
    /\ pc = "combined"
    /\ Len(cin) = 2
    /\ Len(cin[1]) = 3
    /\ cin[1] # cin[2]
    /\ combOut.kind = "panic"
    /\ combOut.msg = CombineMsgs.dup

\* C7 as stated: a split with threshold > 255 fails as
\* threshold-out-of-range.
C7_Original ==
    (splitOut.op = "split" /\ threshold > 255) =>
        /\ splitOut.kind = "panic"
        /\ splitOut.msg = SplitMsgs.thrOver

\* C7 amended: a split with threshold > 255 fails, as parts-below-threshold
\* when parts < threshold and as parts-out-of-range otherwise; no call of
\* split fails as threshold-out-of-range.
C7_ThresholdOver ==
    splitOut.op = "split" =>
        /\ threshold > 255 =>
              /\ splitOut.kind = "panic"
              /\ splitOut.msg = IF parts < threshold THEN SplitMsgs.below
                                ELSE SplitMsgs.over
        /\ splitOut.msg # SplitMsgs.thrOver

\* split(secret, 1000, 256) has failed as parts-out-of-range.
C7_Witness ==
    /\ pc = "split"
    /\ threshold = 256
    /\ parts = 1000
    /\ splitOut.kind = "panic"
    /\ splitOut.msg = SplitMsgs.over

\* C8: no call of split, combine, shard_secret or combine_secret panics.
C8_NeverPanics ==
    /\ splitOut.kind # "panic"
    /\ combOut.kind # "panic"
    /\ ioOut # "panic"

\* The x-coordinates combine reads off the shares it was given.
XSamplesOf(ps) == [i \in 1..Len(ps) |-> Last(ps[i])]

\* combine's three checks let the shares through.
PassedChecks ==
    /\ combOut.op = "combine"
    /\ combOut.msg \notin {CombineMsgs.few, CombineMsgs.form, CombineMsgs.dup}

\* C12: for shares that pass combine's three checks (a share with
\* x-coordinate 0 among them, or shares of a split), no div of the
\* interpolation has divisor 0, no inverse has argument 0, and combine
\* returns without the divide-by-zero panic.
C12_NoInternalPanic ==
    PassedChecks =>
        /\ \A c \in DivCalls(XSamplesOf(cin), 0) : c[2] # 0
        /\ \A a \in InverseCalls(XSamplesOf(cin), 0) : a # 0
        /\ InverseCalls(XSamplesOf(cin), 0) # {}
        /\ combOut.kind = "ok"
        /\ combOut.msg # CombineMsgs.div0

\* Two byte strings, one with x-coordinate 0, passed the checks and were
\* interpolated.
C12_Witness ==
    /\ pc = "combined"
    /\ PassedChecks
    /\ Len(cin) = 2
    /\ Last(cin[1]) = 0
    /\ Last(cin[2]) = 1
    /\ combOut.kind = "ok"
    /\ Len(combOut.secret) = 2

(***************************************************************************)
(* The field operations called on arbitrary bytes                          *)
(***************************************************************************)
FieldInit ==
    /\ pc = "field"
    /\ fa \in Byte
    /\ fb \in Byte
    /\ fout = NoCall
    /\ secret = <<>>
    /\ parts = 0
    /\ threshold = 0
    /\ x_coordinates = <<>>
    /\ polys = <<>>
    /\ splitOut = NoCall
    /\ cin = <<>>
    /\ combOut = NoCall
    /\ ioOut = "none"
    /\ disk = <<>>
    /\ obs = <<>>
    /\ cand = 0

notField == <<secret, parts, threshold, x_coordinates, polys, splitOut,
              cin, combOut, ioOut, disk, obs, cand>>

CallAdd ==
    /\ pc = "field"
    /\ fout.op = "none"
    /\ fout' = [op |-> "add", kind |-> "ok", value |-> add(fa, fb), iters |-> 0]
    /\ UNCHANGED <<pc, fa, fb, notField>>

CallMult ==
    /\ pc = "field"
    /\ fout.op = "none"
    /\ LET run == MultLoop(fa, fb, 0, 0)
       IN  fout' = [op |-> "mult", kind |-> "ok", value |-> run.result,
                    iters |-> run.iters]
    /\ UNCHANGED <<pc, fa, fb, notField>>

CallInverse ==
    /\ pc = "field"
    /\ fout.op = "none"
    /\ fout' = [op |-> "inverse", kind |-> "ok", value |-> inverse(fa),
                iters |-> 0]
    /\ UNCHANGED <<pc, fa, fb, notField>>

CallDiv ==
    /\ pc = "field"
    /\ fout.op = "none"
    /\ fout' = IF DivPanics(fa, fb)
               THEN [op |-> "div", kind |-> "panic", value |-> 0, iters |-> 0]
               ELSE [op |-> "div", kind |-> "ok", value |-> div(fa, fb),
                     iters |-> 0]
    /\ UNCHANGED <<pc, fa, fb, notField>>

FieldNext == CallAdd \/ CallMult \/ CallInverse \/ CallDiv

FieldSpec == FieldInit /\ [][FieldNext]_vars

(***************************************************************************)
(* Field properties                                                        *)
(***************************************************************************)
\* a^n by binary exponentiation.
RECURSIVE Pow(_, _)
Pow(a, n) ==
    IF n = 0 THEN 1
    ELSE IF n % 2 = 0
         THEN LET h == Pow(a, n \div 2) IN MultT[h][h]
         ELSE MultT[a][Pow(a, n - 1)]

\* C9: add(a,a)=0; mult(a,b)=mult(b,a); for a # 0, mult(a,inverse(a))=1 and
\* inverse(a) is a^254; for b # 0, mult(div(a,b),b)=a.
C9_FieldIdentities ==
    /\ (fout.op = "add" /\ fa = fb) => fout.value = 0
    /\ fout.op = "mult" => fout.value = mult(fb, fa)
    /\ (fout.op = "inverse" /\ fa # 0) =>
          /\ mult(fa, fout.value) = 1
          /\ fout.value = Pow(fa, 254)
    /\ (fout.op = "div" /\ fb # 0) =>
          /\ fout.kind = "ok"
          /\ mult(fout.value, fb) = fa

\* test_field_divide's div(6,3)=2 has been computed.
C9_Witness ==
    /\ fout.op = "div"
    /\ fa = 6
    /\ fb = 3
    /\ fout.value = 2

\* C11: inverse(0) panics and returns no field element.
C11_InverseZeroPanics ==
    (fout.op = "inverse" /\ fa = 0) => fout.kind = "panic"

\* Carry-less product of two bytes (15 bits), one term per bit of b.
RECURSIVE ClMul(_, _, _)
ClMul(a, b, i) ==
    IF i = 8 THEN 0
    ELSE XorBits(IF (b \div (2 ^ i)) % 2 = 1 THEN a * (2 ^ i) ELSE 0,
                 ClMul(a, b, i + 1), 16)

\* Remainder of a 15-bit polynomial modulo x^8+x^4+x^3+x+1 (283 = 0x11B).
RECURSIVE PolyMod(_, _)
PolyMod(p, bit) ==
    IF bit < 8 THEN p
    ELSE PolyMod(IF (p \div (2 ^ bit)) % 2 = 1
                 THEN XorBits(p, 283 * (2 ^ (bit - 8)), 16)
                 ELSE p, bit - 1)

RefMult(a, b) == PolyMod(ClMul(a, b, 0), 14)

\* C10: mult(a,b) ends within 8 iterations and equals the carry-less product
\* reduced modulo 0x11B; 1 is the identity, 0 absorbs, mult(3,7)=9.
C10_MultIsReference ==
    fout.op = "mult" =>
        /\ fout.iters <= 8
        /\ fout.value = RefMult(fa, fb)
        /\ fb = 1 => fout.value = fa
        /\ fa = 1 => fout.value = fb
        /\ (fa = 0 \/ fb = 0) => fout.value = 0
        /\ (fa = 3 /\ fb = 7) => fout.value = 9

\* A product whose loop ran all 8 iterations and reduced at least once.
C10_Witness ==
    /\ fout.op = "mult"
    /\ fout.iters = 8
    /\ fa >= 128
    /\ fout.value # 0

(***************************************************************************)
(* What fewer than threshold shares say about one secret byte              *)
(***************************************************************************)
SecrecyThresholds == {2, 3}
ObsBytes == {0, 116, 229, 255}

\* threshold-1 shares of one byte position were seen: their distinct
\* x-coordinates and their values obs; cand is a candidate secret byte.
SecrecyInit ==
    /\ pc = "observed"
    /\ threshold \in SecrecyThresholds
    /\ x_coordinates \in {xs \in [1..(threshold - 1) -> XPool] :
                             \A i, j \in DOMAIN xs : i < j => xs[i] < xs[j]}
    /\ obs \in [1..(threshold - 1) -> ObsBytes]
    /\ cand \in IF threshold = 2 THEN Byte ELSE ObsBytes
    /\ fout = NoCall
    /\ secret = <<>>
    /\ parts = 0
    /\ polys = <<>>
    /\ splitOut = NoCall
    /\ cin = <<>>
    /\ combOut = NoCall
    /\ ioOut = "none"
    /\ disk = <<>>
    /\ fa = 0
    /\ fb = 0

\* The draws of Polynomial::new(cand, threshold - 1) whose polynomial takes
\* the observed values at the observed x-coordinates.
ConsistentDraws ==
    {rnd \in [1..(threshold - 1) -> CoefRange] :
        \A k \in 1..(threshold - 1) :
            evaluate(PolynomialNew(cand, rnd), x_coordinates[k]) = obs[k]}

CountDraws ==
    /\ pc = "observed"
    /\ fout' = [op |-> "count", kind |-> "ok",
                value |-> Cardinality(ConsistentDraws), iters |-> 0]
    /\ pc' = "counted"
    /\ UNCHANGED <<secret, parts, threshold, x_coordinates, polys, splitOut,
                   cin, combOut, ioOut, disk, fa, fb, obs, cand>>

SecrecyNext == CountDraws

SecrecySpec == SecrecyInit /\ [][SecrecyNext]_vars

\* C3: whatever threshold-1 shares show at a byte position, every candidate
\* secret byte is consistent with exactly one draw of the coefficients.
C3_Secrecy ==
    fout.op = "count" => fout.value = 1

\* The draws were counted for two observed shares of a threshold-3 split and
\* a nonzero candidate byte.
C3_Witness ==
    /\ pc = "counted"
    /\ threshold = 3
    /\ Len(obs) = 2
    /\ cand # 0
    /\ fout.value = 1

====
